---- MODULE Spec2Model ----
(***************************************************************************)
(* parallel_proc_runner: BaseJobRunner (a restartable worker that runs its *)
(* job() on a fresh thread per start()), DummyRunner (the concrete job     *)
(* used by the unit tests and the example app) and Cli (the orchestrator   *)
(* that starts every runner, waits for every stop_event and aggregates).   *)
(*                                                                         *)
(* Python strings are sequences of one-character strings, so that          *)
(* concatenation, str() and the substring test `in` are computed.          *)
(***************************************************************************)
EXTENDS Integers, Sequences, FiniteSets, TLC

\* ------------------------------------------------------------------ bounds

\* Number of runners handed to Cli (the collection `runners`).
NumRunners == 3

\* Number of start() calls the unit-test driver makes on its runner.
MaxRuns == 2

\* Number of runners handed to Gui, the first NumWidgets of the collection
NumWidgets == 2

Workers == 1..NumRunners

\* The runner of BaseRunnerTest.setUp (self.runner).
TestWorkers == {1}

\* ----------------------------------------------------------------- strings

STR_Empty == << >>
STR_Success == <<"S","u","c","c","e","s","s">>
STR_FAIL_open == <<"F","A","I","L"," ","(">>
STR_close == <<")">>
STR_Exception == <<"E","x","c","e","p","t","i","o","n">>
STR_newline == <<"\n">>
STR_colon == <<":"," ">>
STR_TypeError == <<"T","y","p","e","E","r","r","o","r">>
STR_must_be_str == <<"m","u","s","t"," ","b","e"," ","s","t","r",","," ",
                     "n","o","t"," ","N","o","n","e","T","y","p","e">>
STR_Output_from == <<"O","u","t","p","u","t"," ","f","r","o","m"," ">>
STR_terminated == <<"J","o","b"," ","w","a","s"," ","t","e","r","m","i","n","a",
                    "t","e","d"," ","b","y"," ","u","s","e","r">>
STR_base_runner == <<"b","a","s","e"," ","r","u","n","n","e","r">>
STR_Process == <<"P","r","o","c","e","s","s"," ">>

\* Python's None where a str is expected (runner.name = None): a value that
\* is no string of characters.
None == <<"<None>">>

Digit(d) == <<"0","1","2","3","4","5","6","7","8","9">>[d + 1]

RECURSIVE StrNat(_)
StrNat(n) == IF n < 10 THEN <<Digit(n)>> ELSE StrNat(n \div 10) \o <<Digit(n % 10)>>

\* str(n) for an int
Str(n) == IF n < 0 THEN <<"-">> \o StrNat(0 - n) ELSE StrNat(n)

\* `sub in s` for two str
Contains(sub, s) ==
    \E i \in 1..(Len(s) - Len(sub) + 1) : SubSeq(s, i, i + Len(sub) - 1) = sub

\* ------------------------------------------------------------------ events

\* A threading.Event is named by <<kind, index>>.
NoEvent == <<"None", 0>>
ExtEvent == <<"event_to_wait_for", 0>>
StopEventOf(w) == <<"stop_event", w>>

GuiWorkers == 1..NumWidgets

\* The gates set_start_gating_event can give a runner of the collection S:
\* none, or the stop_event of a runner of S
GateChoices(S) == {NoEvent} \cup {StopEventOf(v) : v \in S}

\* Result codes the driver gives to DummyRunner.set_result.
JobResults == {-1, 0, 1, 255}

\* Result codes ExampleApp.get_runners configures (i % 2).
CliJobResults == {0, 1}

VARIABLES
    \* BaseJobRunner fields, one per runner
    name, start_gating_event, start_callback, stop_callback, stop_event,
    running, result, output, result_message,
    \* DummyRunner fields
    job_ran, terminated, job_result,
    \* setup_kwargs['job_mocking_event'] of each runner
    job_mocking_event,
    \* position of the runner's thread ("idle": no live thread)
    pc,
    \* BaseRunnerTest fixture
    event_to_wait_for,
    start_callback_called, stop_callback_called,
    stop_callback_result, stop_callback_output,
    \* Cli
    result_info_list, start_callback_sema, stop_callback_sema, cli_pc, exit_code,
    \* history: start() calls per runner; per current run, the number of
    \* start_callback / job / stop_callback / stop_event.set() executions and
    \* what job() did
    runs, start_cb_calls, job_calls, stop_cb_calls, set_calls, job_ret,
    \* history: the runners in the order they entered call_when_runner_stops'
    \* guarded region; the (result_message, output) each start() overwrote
    stop_order, prev_final,
    \* GuiProcessWidget.state and process_enable_var of each runner's widget
    widget_state, process_enable_var,
    \* Gui: where the Tk main loop is, and the locals num_started of go_action
    \* and all_done of poll_all_widgets_done
    gui_pc, num_started, all_done,
    \* threads of earlier runs that start() left behind: how many of them have
    \* yet to reach stop_event.set(); whether start() ever found a thread live
    late_set, overlapped,
    \* BaseJobRunner.setup_kwargs of each runner, a set of <<key, value>> pairs
    setup_kwargs,
    \* the thread calling the runner's terminate(): "idle" before the call,
    \* "set_flag" between the two statements of DummyRunner.terminate, "done"
    \* once terminate() has returned
    term_pc

runnerVars == <<name, start_gating_event, start_callback, stop_callback, stop_event,
                running, result, output, result_message>>
dummyVars == <<job_ran, terminated, job_result, job_mocking_event>>
fixtureVars == <<event_to_wait_for, start_callback_called, stop_callback_called,
                 stop_callback_result, stop_callback_output>>
cliVars == <<result_info_list, start_callback_sema, stop_callback_sema, cli_pc, exit_code>>
histVars == <<runs, start_cb_calls, job_calls, stop_cb_calls, set_calls, job_ret>>
orderVars == <<stop_order, prev_final>>
guiVars == <<widget_state, process_enable_var, gui_pc, num_started, all_done,
             late_set, overlapped>>
sideVars == <<setup_kwargs, term_pc>>
vars == <<runnerVars, dummyVars, fixtureVars, cliVars, histVars, orderVars, guiVars,
          sideVars, pc>>


\* ----------------------------------------------------------- pure functions

IsSet(e) == IF e[1] = "stop_event" THEN stop_event[e[2]] ELSE event_to_wait_for

\* "Process " + str(i), the names ExampleApp.get_runners gives (0-based i)
NameOf(w) == STR_Process \o Str(w - 1)

\* line 98: "Success" if self.result == 0 else "FAIL (" + str(self.result) + ")"
ResultMessageWrongZero(r) ==
    IF r >= 0 THEN STR_Success ELSE STR_FAIL_open \o Str(r) \o STR_close

ResultMessage(r) ==
    IF r = 0 THEN STR_Success ELSE STR_FAIL_open \o Str(r) \o STR_close

\* line 103: the literal "FAIL (Exception)"
ExceptionMessage == STR_FAIL_open \o STR_Exception \o STR_close

\* line 105: self.output += "\n" + type(e).__name__ + ": " + str(e)
ExceptionOutputNoTypeName(prior, etype, emsg) ==
    prior \o STR_newline \o emsg

ExceptionOutput(prior, etype, emsg) ==
    prior \o STR_newline \o etype \o STR_colon \o emsg

NoJobRet == [kind |-> "none", code |-> 0, text |-> STR_Empty, etype |-> STR_Empty]

\* DummyRunner.job lines 713-717, once job_mocking_event.wait() has returned:
\* what job() returns, or the exception it raises ("Output from " + None is a
\* TypeError).
DummyJob(w) ==
    IF terminated[w]
    THEN [kind |-> "return", code |-> 255, text |-> STR_terminated, etype |-> STR_Empty]
    ELSE IF name[w] = None
    THEN [kind |-> "raise", code |-> 0, text |-> STR_must_be_str, etype |-> STR_TypeError]
    ELSE [kind |-> "return", code |-> job_result[w],
          text |-> STR_Output_from \o name[w], etype |-> STR_Empty]

\* ------------------------------------------------------- BaseJobRunner.start

StartKeepsOldValues(w) ==
    /\ pc' = [pc EXCEPT ![w] = "run"]
    /\ runs' = [runs EXCEPT ![w] = @ + 1]
    /\ start_cb_calls' = [start_cb_calls EXCEPT ![w] = 0]
    /\ job_calls' = [job_calls EXCEPT ![w] = 0]
    /\ stop_cb_calls' = [stop_cb_calls EXCEPT ![w] = 0]
    /\ set_calls' = [set_calls EXCEPT ![w] = 0]
    /\ job_ret' = [job_ret EXCEPT ![w] = NoJobRet]
    /\ UNCHANGED <<result, output, result_message, stop_event>>
    /\ prev_final' = [prev_final EXCEPT ![w] = <<result_message[w], output[w]>>]

\* start(): reset the result fields, clear stop_event, spawn the thread.
Start(w) ==
    /\ result' = [result EXCEPT ![w] = -1]
    /\ output' = [output EXCEPT ![w] = STR_Empty]
    /\ result_message' = [result_message EXCEPT ![w] = STR_Empty]
    /\ stop_event' = [stop_event EXCEPT ![w] = FALSE]
    /\ pc' = [pc EXCEPT ![w] = "run"]
    /\ runs' = [runs EXCEPT ![w] = @ + 1]
    /\ start_cb_calls' = [start_cb_calls EXCEPT ![w] = 0]
    /\ job_calls' = [job_calls EXCEPT ![w] = 0]
    /\ stop_cb_calls' = [stop_cb_calls EXCEPT ![w] = 0]
    /\ set_calls' = [set_calls EXCEPT ![w] = 0]
    /\ job_ret' = [job_ret EXCEPT ![w] = NoJobRet]
    /\ prev_final' = [prev_final EXCEPT ![w] = <<result_message[w], output[w]>>]

\* --------------------------------------------------------- BaseJobRunner.run

RunBeginDropsArgs(w) ==
    /\ pc[w] = "run"
    /\ running' = [running EXCEPT ![w] = FALSE]
    /\ setup_kwargs' = [setup_kwargs EXCEPT ![w] = {}]
    /\ pc' = [pc EXCEPT ![w] = IF start_gating_event[w] = NoEvent THEN "set_running"
                                ELSE "gate_wait"]
    /\ UNCHANGED <<name, start_gating_event, start_callback, stop_callback, stop_event,
                   result, output, result_message>>
    /\ UNCHANGED <<dummyVars, fixtureVars, cliVars, histVars>>
    /\ UNCHANGED <<orderVars, guiVars, term_pc>>

\* lines 87 and 89: with no gate, wait() is not called
RunBegin(w) ==
    /\ pc[w] = "run"
    /\ running' = [running EXCEPT ![w] = FALSE]
    /\ pc' = [pc EXCEPT ![w] = IF start_gating_event[w] = NoEvent THEN "set_running"
                                ELSE "gate_wait"]
    /\ UNCHANGED <<name, start_gating_event, start_callback, stop_callback, stop_event,
                   result, output, result_message>>
    /\ UNCHANGED <<dummyVars, fixtureVars, cliVars, histVars>>
    /\ UNCHANGED <<orderVars, guiVars, sideVars>>

RunGateNoWait(w) ==
    /\ pc[w] = "gate_wait"
    /\ pc' = [pc EXCEPT ![w] = "set_running"]
    /\ UNCHANGED <<runnerVars, dummyVars, fixtureVars, cliVars, histVars>>
    /\ UNCHANGED <<orderVars, guiVars, sideVars>>

RunGateOnSuccessOnly(w) ==
    /\ pc[w] = "gate_wait"
    /\ IsSet(start_gating_event[w])
    /\ \A v \in Workers : start_gating_event[w] = StopEventOf(v) => result[v] = 0
    /\ pc' = [pc EXCEPT ![w] = "set_running"]
    /\ UNCHANGED <<runnerVars, dummyVars, fixtureVars, cliVars, histVars>>
    /\ UNCHANGED <<orderVars, guiVars, sideVars>>

\* line 90: start_gating_event.wait() returns once the event is set
RunGate(w) ==
    /\ pc[w] = "gate_wait"
    /\ IsSet(start_gating_event[w])
    /\ pc' = [pc EXCEPT ![w] = "set_running"]
    /\ UNCHANGED <<runnerVars, dummyVars, fixtureVars, cliVars, histVars>>
    /\ UNCHANGED <<orderVars, guiVars, sideVars>>

RunSetRunningLate(w) ==
    /\ pc[w] = "set_running"
    /\ pc' = [pc EXCEPT ![w] = "start_callback"]
    /\ UNCHANGED <<runnerVars, dummyVars, fixtureVars, cliVars, histVars>>
    /\ UNCHANGED <<orderVars, guiVars, sideVars>>

\* line 92
RunSetRunning(w) ==
    /\ pc[w] = "set_running"
    /\ running' = [running EXCEPT ![w] = TRUE]
    /\ pc' = [pc EXCEPT ![w] = "start_callback"]
    /\ UNCHANGED <<name, start_gating_event, start_callback, stop_callback, stop_event,
                   result, output, result_message>>
    /\ UNCHANGED <<dummyVars, fixtureVars, cliVars, histVars>>
    /\ UNCHANGED <<orderVars, guiVars, sideVars>>

SkipStartCallbackCallsNone(w) ==
    /\ pc[w] = "start_callback"
    /\ start_callback[w] = "None"
    /\ pc' = [pc EXCEPT ![w] = "idle"]
    /\ UNCHANGED <<runnerVars, dummyVars, fixtureVars, cliVars, histVars>>
    /\ UNCHANGED <<orderVars, guiVars, sideVars>>

\* line 93 with start_callback None: nothing is called
SkipStartCallback(w) ==
    /\ pc[w] = "start_callback"
    /\ start_callback[w] = "None"
    /\ pc' = [pc EXCEPT ![w] = "job"]
    /\ UNCHANGED <<runnerVars, dummyVars, fixtureVars, cliVars, histVars>>
    /\ UNCHANGED <<orderVars, guiVars, sideVars>>

MockStartCallbackTwice(w) ==
    /\ pc[w] = "start_callback"
    /\ start_callback[w] = "mock"
    /\ start_callback_called' = TRUE
    /\ start_cb_calls' = [start_cb_calls EXCEPT ![w] = @ + 2]
    /\ pc' = [pc EXCEPT ![w] = "job"]
    /\ UNCHANGED <<runnerVars, dummyVars, cliVars>>
    /\ UNCHANGED <<event_to_wait_for, stop_callback_called, stop_callback_result,
                   stop_callback_output>>
    /\ UNCHANGED <<runs, job_calls, stop_cb_calls, set_calls, job_ret>>
    /\ UNCHANGED <<orderVars, guiVars, sideVars>>

\* line 94 calling BaseRunnerTest.mock_start_callback
MockStartCallback(w) ==
    /\ pc[w] = "start_callback"
    /\ start_callback[w] = "mock"
    /\ start_callback_called' = TRUE
    /\ start_cb_calls' = [start_cb_calls EXCEPT ![w] = @ + 1]
    /\ pc' = [pc EXCEPT ![w] = "job"]
    /\ UNCHANGED <<runnerVars, dummyVars, cliVars>>
    /\ UNCHANGED <<event_to_wait_for, stop_callback_called, stop_callback_result,
                   stop_callback_output>>
    /\ UNCHANGED <<runs, job_calls, stop_cb_calls, set_calls, job_ret>>
    /\ UNCHANGED <<orderVars, guiVars, sideVars>>

\* line 97 entering DummyRunner.job, lines 710-711
JobEnter(w) ==
    /\ pc[w] = "job"
    /\ terminated' = [terminated EXCEPT ![w] = FALSE]
    /\ job_ran' = [job_ran EXCEPT ![w] = FALSE]
    /\ job_calls' = [job_calls EXCEPT ![w] = @ + 1]
    /\ pc' = [pc EXCEPT ![w] = "job_wait"]
    /\ UNCHANGED <<runnerVars, job_result, job_mocking_event, fixtureVars, cliVars>>
    /\ UNCHANGED <<runs, start_cb_calls, stop_cb_calls, set_calls, job_ret>>
    /\ UNCHANGED <<orderVars, guiVars, sideVars>>

\* DummyRunner.job lines 712-717 returning, then run lines 97-98
JobReturn(w) ==
    /\ pc[w] = "job_wait"
    /\ job_mocking_event[w]
    /\ DummyJob(w).kind = "return"
    /\ job_ran' = [job_ran EXCEPT ![w] = TRUE]
    /\ terminated' = [terminated EXCEPT ![w] = FALSE]
    /\ result' = [result EXCEPT ![w] = DummyJob(w).code]
    /\ output' = [output EXCEPT ![w] = DummyJob(w).text]
    /\ result_message' = [result_message EXCEPT ![w] = ResultMessage(DummyJob(w).code)]
    /\ job_ret' = [job_ret EXCEPT ![w] = DummyJob(w)]
    /\ pc' = [pc EXCEPT ![w] = "finally"]
    /\ UNCHANGED <<name, start_gating_event, start_callback, stop_callback, stop_event,
                   running>>
    /\ UNCHANGED <<job_result, job_mocking_event, fixtureVars, cliVars>>
    /\ UNCHANGED <<runs, start_cb_calls, job_calls, stop_cb_calls, set_calls>>
    /\ UNCHANGED <<orderVars, guiVars, sideVars>>

\* DummyRunner.job lines 712-717 raising, then run lines 100-105
JobRaise(w) ==
    /\ pc[w] = "job_wait"
    /\ job_mocking_event[w]
    /\ DummyJob(w).kind = "raise"
    /\ job_ran' = [job_ran EXCEPT ![w] = TRUE]
    /\ result_message' = [result_message EXCEPT ![w] = ExceptionMessage]
    /\ output' = [output EXCEPT ![w] =
                    ExceptionOutput(output[w], DummyJob(w).etype, DummyJob(w).text)]
    /\ job_ret' = [job_ret EXCEPT ![w] = DummyJob(w)]
    /\ pc' = [pc EXCEPT ![w] = "finally"]
    /\ UNCHANGED <<name, start_gating_event, start_callback, stop_callback, stop_event,
                   running, result>>
    /\ UNCHANGED <<terminated, job_result, job_mocking_event, fixtureVars, cliVars>>
    /\ UNCHANGED <<runs, start_cb_calls, job_calls, stop_cb_calls, set_calls>>
    /\ UNCHANGED <<orderVars, guiVars, sideVars>>

RunFinallyKeepsRunning(w) ==
    /\ pc[w] = "finally"
    /\ pc' = [pc EXCEPT ![w] = "stop_callback"]
    /\ UNCHANGED <<runnerVars, dummyVars, fixtureVars, cliVars, histVars>>
    /\ UNCHANGED <<orderVars, guiVars, sideVars>>

RunFinallySetsEventFirst(w) ==
    /\ pc[w] = "finally"
    /\ running' = [running EXCEPT ![w] = FALSE]
    /\ stop_event' = [stop_event EXCEPT ![w] = TRUE]
    /\ set_calls' = [set_calls EXCEPT ![w] = @ + 1]
    /\ pc' = [pc EXCEPT ![w] = "stop_callback"]
    /\ UNCHANGED <<name, start_gating_event, start_callback, stop_callback,
                   result, output, result_message>>
    /\ UNCHANGED <<dummyVars, fixtureVars, cliVars>>
    /\ UNCHANGED <<runs, start_cb_calls, job_calls, stop_cb_calls, job_ret>>
    /\ UNCHANGED <<orderVars, guiVars, sideVars>>

\* line 108
RunFinally(w) ==
    /\ pc[w] = "finally"
    /\ running' = [running EXCEPT ![w] = FALSE]
    /\ pc' = [pc EXCEPT ![w] = "stop_callback"]
    /\ UNCHANGED <<name, start_gating_event, start_callback, stop_callback, stop_event,
                   result, output, result_message>>
    /\ UNCHANGED <<dummyVars, fixtureVars, cliVars, histVars>>
    /\ UNCHANGED <<orderVars, guiVars, sideVars>>

\* line 109 with stop_callback None: nothing is called
SkipStopCallback(w) ==
    /\ pc[w] = "stop_callback"
    /\ stop_callback[w] = "None"
    /\ pc' = [pc EXCEPT ![w] = "set_stop_event"]
    /\ UNCHANGED <<runnerVars, dummyVars, fixtureVars, cliVars, histVars>>
    /\ UNCHANGED <<orderVars, guiVars, sideVars>>

\* line 110 calling BaseRunnerTest.mock_stop_callback; its last assertion
\* (stop_event not set yet) raises out of run() when it fails, and line 111 is
\* then not reached.
MockStopCallback(w) ==
    /\ pc[w] = "stop_callback"
    /\ stop_callback[w] = "mock"
    /\ stop_callback_result' = result_message[w]
    /\ stop_callback_output' = output[w]
    /\ stop_callback_called' = TRUE
    /\ stop_cb_calls' = [stop_cb_calls EXCEPT ![w] = @ + 1]
    /\ pc' = [pc EXCEPT ![w] = IF stop_event[w] THEN "idle" ELSE "set_stop_event"]
    /\ UNCHANGED <<runnerVars, dummyVars, cliVars>>
    /\ UNCHANGED <<event_to_wait_for, start_callback_called>>
    /\ UNCHANGED <<runs, start_cb_calls, job_calls, set_calls, job_ret>>
    /\ UNCHANGED <<orderVars, guiVars, sideVars>>

RunSetStopEventForgets(w) ==
    /\ pc[w] = "set_stop_event"
    /\ pc' = [pc EXCEPT ![w] = "idle"]
    /\ UNCHANGED <<runnerVars, dummyVars, fixtureVars, cliVars, histVars>>
    /\ UNCHANGED <<orderVars, guiVars, sideVars>>

\* line 111; run() returns and the thread ends
RunSetStopEvent(w) ==
    /\ pc[w] = "set_stop_event"
    /\ stop_event' = [stop_event EXCEPT ![w] = TRUE]
    /\ set_calls' = [set_calls EXCEPT ![w] = @ + 1]
    /\ pc' = [pc EXCEPT ![w] = "idle"]
    /\ UNCHANGED <<name, start_gating_event, start_callback, stop_callback,
                   running, result, output, result_message>>
    /\ UNCHANGED <<dummyVars, fixtureVars, cliVars>>
    /\ UNCHANGED <<runs, start_cb_calls, job_calls, stop_cb_calls, job_ret>>
    /\ UNCHANGED <<orderVars, guiVars, sideVars>>


\* line 94 calling the callback the constructor installed, dummy_method
DummyStartCallback(w) ==
    /\ pc[w] = "start_callback"
    /\ start_callback[w] = "dummy_method"
    /\ start_cb_calls' = [start_cb_calls EXCEPT ![w] = @ + 1]
    /\ pc' = [pc EXCEPT ![w] = "job"]
    /\ UNCHANGED <<runnerVars, dummyVars, fixtureVars, cliVars>>
    /\ UNCHANGED <<runs, job_calls, stop_cb_calls, set_calls, job_ret>>
    /\ UNCHANGED <<orderVars, guiVars, sideVars>>

\* line 110 calling dummy_method
DummyStopCallback(w) ==
    /\ pc[w] = "stop_callback"
    /\ stop_callback[w] = "dummy_method"
    /\ stop_cb_calls' = [stop_cb_calls EXCEPT ![w] = @ + 1]
    /\ pc' = [pc EXCEPT ![w] = "set_stop_event"]
    /\ UNCHANGED <<runnerVars, dummyVars, fixtureVars, cliVars>>
    /\ UNCHANGED <<runs, start_cb_calls, job_calls, set_calls, job_ret>>
    /\ UNCHANGED <<orderVars, guiVars, sideVars>>

\* line 111 on a thread of an earlier run that start() did not wait for: it
\* had left line 108, and its stop callback (dummy_method) does nothing
LateSetStopEvent(w) ==
    /\ late_set[w] > 0
    /\ stop_event' = [stop_event EXCEPT ![w] = TRUE]
    /\ late_set' = [late_set EXCEPT ![w] = @ - 1]
    /\ UNCHANGED <<name, start_gating_event, start_callback, stop_callback,
                   running, result, output, result_message>>
    /\ UNCHANGED <<dummyVars, fixtureVars, cliVars, histVars, orderVars, pc>>
    /\ UNCHANGED sideVars
    /\ UNCHANGED <<widget_state, process_enable_var, gui_pc, num_started, all_done,
                   overlapped>>


\* ------------------------------------------------------------ Cli callbacks

\* lines 142-143: entering `with self.start_callback_sema`
CliStartAcquire(w) ==
    /\ pc[w] = "start_callback"
    /\ start_callback[w] = "cli"
    /\ start_callback_sema > 0
    /\ start_callback_sema' = start_callback_sema - 1
    /\ start_cb_calls' = [start_cb_calls EXCEPT ![w] = @ + 1]
    /\ pc' = [pc EXCEPT ![w] = "cli_starting"]
    /\ UNCHANGED <<runnerVars, dummyVars, fixtureVars>>
    /\ UNCHANGED <<result_info_list, stop_callback_sema, cli_pc, exit_code>>
    /\ UNCHANGED <<runs, job_calls, stop_cb_calls, set_calls, job_ret>>
    /\ UNCHANGED <<orderVars, guiVars, sideVars>>

\* line 144 and leaving the with block
CliStartRelease(w) ==
    /\ pc[w] = "cli_starting"
    /\ start_callback_sema' = start_callback_sema + 1
    /\ pc' = [pc EXCEPT ![w] = "job"]
    /\ UNCHANGED <<runnerVars, dummyVars, fixtureVars, histVars>>
    /\ UNCHANGED <<result_info_list, stop_callback_sema, cli_pc, exit_code>>
    /\ UNCHANGED <<orderVars, guiVars, sideVars>>

CliStopAcquireOnStartSema(w) ==
    /\ pc[w] = "stop_callback"
    /\ stop_callback[w] = "cli"
    /\ start_callback_sema > 0
    /\ start_callback_sema' = start_callback_sema - 1
    /\ stop_cb_calls' = [stop_cb_calls EXCEPT ![w] = @ + 1]
    /\ pc' = [pc EXCEPT ![w] = "cli_stopping"]
    /\ UNCHANGED <<runnerVars, dummyVars, fixtureVars>>
    /\ UNCHANGED <<result_info_list, stop_callback_sema, cli_pc, exit_code>>
    /\ UNCHANGED <<runs, start_cb_calls, job_calls, set_calls, job_ret>>
    /\ stop_order' = Append(stop_order, w)
    /\ UNCHANGED <<prev_final, guiVars, sideVars>>

CliStopAcquireNoSema(w) ==
    /\ pc[w] = "stop_callback"
    /\ stop_callback[w] = "cli"
    /\ stop_callback_sema' = stop_callback_sema - 1
    /\ stop_cb_calls' = [stop_cb_calls EXCEPT ![w] = @ + 1]
    /\ pc' = [pc EXCEPT ![w] = "cli_stopping"]
    /\ UNCHANGED <<runnerVars, dummyVars, fixtureVars>>
    /\ UNCHANGED <<result_info_list, start_callback_sema, cli_pc, exit_code>>
    /\ UNCHANGED <<runs, start_cb_calls, job_calls, set_calls, job_ret>>
    /\ stop_order' = Append(stop_order, w)
    /\ UNCHANGED <<prev_final, guiVars, sideVars>>

\* lines 146-147: entering `with self.stop_callback_sema`
CliStopAcquire(w) ==
    /\ pc[w] = "stop_callback"
    /\ stop_callback[w] = "cli"
    /\ stop_callback_sema > 0
    /\ stop_callback_sema' = stop_callback_sema - 1
    /\ stop_cb_calls' = [stop_cb_calls EXCEPT ![w] = @ + 1]
    /\ pc' = [pc EXCEPT ![w] = "cli_stopping"]
    /\ UNCHANGED <<runnerVars, dummyVars, fixtureVars>>
    /\ UNCHANGED <<result_info_list, start_callback_sema, cli_pc, exit_code>>
    /\ UNCHANGED <<runs, start_cb_calls, job_calls, set_calls, job_ret>>
    /\ stop_order' = Append(stop_order, w)
    /\ UNCHANGED <<prev_final, guiVars, sideVars>>

\* The record call_when_runner_stops appends. Its arguments were bound at line
\* 110; the runner's fields are written by no one between that call and the
\* append, so they are read here.
StopRecordOfFirstRunner(w) ==
    <<name[w], result_message[1], output[w]>>

StopRecord(w) ==
    <<name[w], result_message[w], output[w]>>

CliStopAppendInFront(w) ==
    /\ pc[w] = "cli_stopping"
    /\ result_info_list' = <<StopRecord(w)>> \o result_info_list
    /\ stop_callback_sema' = stop_callback_sema + 1
    /\ pc' = [pc EXCEPT ![w] = "set_stop_event"]
    /\ UNCHANGED <<runnerVars, dummyVars, fixtureVars, histVars>>
    /\ UNCHANGED <<start_callback_sema, cli_pc, exit_code>>
    /\ UNCHANGED <<orderVars, guiVars, sideVars>>

\* lines 148-149 and leaving the with block
CliStopAppend(w) ==
    /\ pc[w] = "cli_stopping"
    /\ result_info_list' = Append(result_info_list, StopRecord(w))
    /\ stop_callback_sema' = stop_callback_sema + 1
    /\ pc' = [pc EXCEPT ![w] = "set_stop_event"]
    /\ UNCHANGED <<runnerVars, dummyVars, fixtureVars, histVars>>
    /\ UNCHANGED <<start_callback_sema, cli_pc, exit_code>>
    /\ UNCHANGED <<orderVars, guiVars, sideVars>>

\* ------------------------------------------------------------------ Cli.run

\* lines 199-201: r.start() for the next runner of the collection
CliRunStart ==
    /\ cli_pc[1] = "start"
    /\ Start(cli_pc[2])
    /\ cli_pc' = IF cli_pc[2] < NumRunners THEN <<"start", cli_pc[2] + 1>>
                 ELSE <<"wait", 1>>
    /\ UNCHANGED <<name, start_gating_event, start_callback, stop_callback, running>>
    /\ UNCHANGED <<dummyVars, fixtureVars>>
    /\ UNCHANGED <<result_info_list, start_callback_sema, stop_callback_sema, exit_code>>
    /\ UNCHANGED <<stop_order, guiVars, sideVars>>

CliRunWaitReturnsAtOnce ==
    /\ cli_pc[1] = "wait"
    /\ cli_pc' = IF cli_pc[2] < NumRunners THEN <<"wait", cli_pc[2] + 1>>
                 ELSE <<"display", 0>>
    /\ UNCHANGED <<runnerVars, dummyVars, fixtureVars, histVars, pc>>
    /\ UNCHANGED <<result_info_list, start_callback_sema, stop_callback_sema, exit_code>>
    /\ UNCHANGED <<orderVars, guiVars, sideVars>>

\* lines 203-204: r.stop_event.wait() for the next runner of the collection
CliRunWait ==
    /\ cli_pc[1] = "wait"
    /\ stop_event[cli_pc[2]]
    /\ cli_pc' = IF cli_pc[2] < NumRunners THEN <<"wait", cli_pc[2] + 1>>
                 ELSE <<"display", 0>>
    /\ UNCHANGED <<runnerVars, dummyVars, fixtureVars, histVars, pc>>
    /\ UNCHANGED <<result_info_list, start_callback_sema, stop_callback_sema, exit_code>>
    /\ UNCHANGED <<orderVars, guiVars, sideVars>>

\* line 206: display_result_info only prints
CliDisplay ==
    /\ cli_pc[1] = "display"
    /\ cli_pc' = <<"exit", 0>>
    /\ UNCHANGED <<runnerVars, dummyVars, fixtureVars, histVars, pc>>
    /\ UNCHANGED <<result_info_list, start_callback_sema, stop_callback_sema, exit_code>>
    /\ UNCHANGED <<orderVars, guiVars, sideVars>>

\* lines 178-181: the names of the records whose result_message lacks "Success"
RECURSIVE FailingJobs(_)
FailingJobs(list) ==
    IF list = << >> THEN << >>
    ELSE IF ~Contains(STR_Success, Head(list)[2])
         THEN <<Head(list)[1]>> \o FailingJobs(Tail(list))
         ELSE FailingJobs(Tail(list))

ExitReturnCodeOfFirst(list) ==
    IF list # << >> /\ Len(FailingJobs(<<Head(list)>>)) > 0 THEN 1 ELSE 0

\* lines 185-196 and 207: sys.exit(1) inside get_exit_return_code when a job
\* failed, else it returns None and run() calls sys.exit(None), exit status 0
ExitReturnCode(list) ==
    IF Len(FailingJobs(list)) > 0 THEN 1 ELSE 0

\* line 207
CliExit ==
    /\ cli_pc[1] = "exit"
    /\ exit_code' = ExitReturnCode(result_info_list)
    /\ cli_pc' = <<"exited", 0>>
    /\ UNCHANGED <<runnerVars, dummyVars, fixtureVars, histVars, pc>>
    /\ UNCHANGED <<result_info_list, start_callback_sema, stop_callback_sema>>
    /\ UNCHANGED <<orderVars, guiVars, sideVars>>

\* ---------------------------------------------------------------------- Gui

\* the user clicks a widget's check button (it exists while the widget is in
\* INIT and the Go button is shown)
ToggleCheckButton(w) ==
    /\ gui_pc = <<"go_button", 0>>
    /\ widget_state[w] = "INIT"
    /\ process_enable_var' = [process_enable_var EXCEPT ![w] = 1 - @]
    /\ UNCHANGED <<widget_state, gui_pc, num_started, all_done, late_set, overlapped>>
    /\ UNCHANGED <<runnerVars, dummyVars, fixtureVars, cliVars, histVars, orderVars, pc>>
    /\ UNCHANGED sideVars

\* go_action lines 594-595, the user having pressed Go
GoAction ==
    /\ gui_pc = <<"go_button", 0>>
    /\ \A w \in GuiWorkers : runs[w] < MaxRuns
    /\ num_started' = 0
    /\ gui_pc' = <<"go", 1>>
    /\ UNCHANGED <<widget_state, process_enable_var, all_done, late_set, overlapped>>
    /\ UNCHANGED <<runnerVars, dummyVars, fixtureVars, cliVars, histVars, orderVars, pc>>
    /\ UNCHANGED sideVars

\* go_action lines 596-603: on to the next widget, or to the polling loop when
\* a widget was started, or to the Reset button
AfterWidgetStart(i, n) ==
    IF i < NumWidgets THEN <<"go", i + 1>>
    ELSE IF n > 0 THEN <<"poll", 1>>
    ELSE <<"reset_button", 0>>

\* GuiProcessWidget.start with the widget selected: WAITING, then
\* transition_to_waiting_to_start calls runner.start(). start() does not look
\* at the thread of the previous run; one that has left line 108 goes on to
\* line 111 beside the new thread.
WidgetStart ==
    /\ gui_pc[1] = "go"
    /\ process_enable_var[gui_pc[2]] = 1
    /\ pc[gui_pc[2]] \in {"idle", "stop_callback", "set_stop_event"}
    /\ widget_state' = [widget_state EXCEPT ![gui_pc[2]] = "WAITING"]
    /\ Start(gui_pc[2])
    /\ late_set' = [late_set EXCEPT ![gui_pc[2]] =
                        IF pc[gui_pc[2]] = "idle" THEN @ ELSE @ + 1]
    /\ overlapped' = (overlapped \/ pc[gui_pc[2]] # "idle")
    /\ gui_pc' = AfterWidgetStart(gui_pc[2], num_started + 1)
    /\ num_started' = IF gui_pc[2] < NumWidgets THEN num_started + 1 ELSE 0
    /\ all_done' = TRUE
    /\ UNCHANGED <<process_enable_var, sideVars>>
    /\ UNCHANGED <<name, start_gating_event, start_callback, stop_callback, running>>
    /\ UNCHANGED <<dummyVars, fixtureVars, cliVars>>
    /\ UNCHANGED stop_order

\* GuiProcessWidget.start with the widget not selected: DONE, runner not started
WidgetStartNotSelected ==
    /\ gui_pc[1] = "go"
    /\ process_enable_var[gui_pc[2]] = 0
    /\ widget_state' = [widget_state EXCEPT ![gui_pc[2]] = "DONE"]
    /\ gui_pc' = AfterWidgetStart(gui_pc[2], num_started)
    /\ num_started' = IF gui_pc[2] < NumWidgets THEN num_started ELSE 0
    /\ all_done' = TRUE
    /\ UNCHANGED <<process_enable_var, late_set, overlapped>>
    /\ UNCHANGED <<runnerVars, dummyVars, fixtureVars, cliVars, histVars, orderVars, pc>>
    /\ UNCHANGED sideVars

\* GuiProcessWidget.poll_done lines 277-283: the widget's state after the poll
PollDoneState(w) ==
    IF widget_state[w] = "WAITING" /\ running[w] THEN "RUNNING"
    ELSE IF \/ widget_state[w] = "WAITING" /\ stop_event[w]
            \/ widget_state[w] = "RUNNING" /\ ~running[w]
         THEN "DONE"
         ELSE widget_state[w]

\* poll_all_widgets_done lines 613-615 for the next widget; after the last
\* one, process_widget_polling_loop lines 606-609: Reset button when all are
\* done, else the loop is run again 250 ms later
PollDone ==
    /\ gui_pc[1] = "poll"
    /\ widget_state' = [widget_state EXCEPT ![gui_pc[2]] = PollDoneState(gui_pc[2])]
    /\ gui_pc' = IF gui_pc[2] < NumWidgets THEN <<"poll", gui_pc[2] + 1>>
                 ELSE IF all_done /\ PollDoneState(gui_pc[2]) = "DONE"
                      THEN <<"reset_button", 0>>
                      ELSE <<"poll", 1>>
    /\ all_done' = IF gui_pc[2] < NumWidgets
                   THEN (all_done /\ PollDoneState(gui_pc[2]) = "DONE")
                   ELSE TRUE
    /\ UNCHANGED <<process_enable_var, num_started, late_set, overlapped>>
    /\ UNCHANGED <<runnerVars, dummyVars, fixtureVars, cliVars, histVars, orderVars, pc>>
    /\ UNCHANGED sideVars

\* reset_action lines 619-623, the user having pressed Reset
ResetAction ==
    /\ gui_pc = <<"reset_button", 0>>
    /\ widget_state' = [w \in Workers |-> "INIT"]
    /\ gui_pc' = <<"go_button", 0>>
    /\ UNCHANGED <<process_enable_var, num_started, all_done, late_set, overlapped>>
    /\ UNCHANGED <<runnerVars, dummyVars, fixtureVars, cliVars, histVars, orderVars, pc>>
    /\ UNCHANGED sideVars

\* -------------------------------------------------------------- environment

\* the job's event is set: setup_kwargs['job_mocking_event'].set()
JobMockingEventSet(w) ==
    /\ ~job_mocking_event[w]
    /\ job_mocking_event' = [job_mocking_event EXCEPT ![w] = TRUE]
    /\ UNCHANGED <<runnerVars, job_ran, terminated, job_result, fixtureVars, cliVars,
                   histVars, pc>>
    /\ UNCHANGED <<orderVars, guiVars, sideVars>>

\* test line 217: job_mocking_event.clear() between two runs
JobMockingEventClear(w) ==
    /\ job_mocking_event[w]
    /\ pc[w] = "idle"
    /\ job_mocking_event' = [job_mocking_event EXCEPT ![w] = FALSE]
    /\ UNCHANGED <<runnerVars, job_ran, terminated, job_result, fixtureVars, cliVars,
                   histVars, pc>>
    /\ UNCHANGED <<orderVars, guiVars, sideVars>>

\* test: event_to_wait_for.set()
GateSet ==
    /\ ~event_to_wait_for
    /\ event_to_wait_for' = TRUE
    /\ UNCHANGED <<runnerVars, dummyVars, cliVars, histVars, pc>>
    /\ UNCHANGED <<start_callback_called, stop_callback_called, stop_callback_result,
                   stop_callback_output>>
    /\ UNCHANGED <<orderVars, guiVars, sideVars>>

\* test line 216: event_to_wait_for.clear() between two runs
GateClear ==
    /\ event_to_wait_for
    /\ \A w \in TestWorkers : pc[w] = "idle"
    /\ event_to_wait_for' = FALSE
    /\ UNCHANGED <<runnerVars, dummyVars, cliVars, histVars, pc>>
    /\ UNCHANGED <<start_callback_called, stop_callback_called, stop_callback_result,
                   stop_callback_output>>
    /\ UNCHANGED <<orderVars, guiVars, sideVars>>

SetResultWritesResult(w, r) ==
    /\ job_result[w] # r
    /\ result' = [result EXCEPT ![w] = r]
    /\ UNCHANGED <<name, start_gating_event, start_callback, stop_callback, stop_event,
                   running, output, result_message>>
    /\ UNCHANGED <<dummyVars, fixtureVars, cliVars, histVars, pc>>
    /\ UNCHANGED <<orderVars, guiVars, sideVars>>

\* DummyRunner.set_result
SetResult(w, r) ==
    /\ job_result[w] # r
    /\ job_result' = [job_result EXCEPT ![w] = r]
    /\ UNCHANGED <<runnerVars, job_ran, terminated, job_mocking_event, fixtureVars,
                   cliVars, histVars, pc>>
    /\ UNCHANGED <<orderVars, guiVars, sideVars>>

\* test line 251: self.runner.name = None, before the run
SetNameNone(w) ==
    /\ pc[w] = "idle"
    /\ name[w] # None
    /\ name' = [name EXCEPT ![w] = None]
    /\ UNCHANGED <<start_gating_event, start_callback, stop_callback, stop_event,
                   running, result, output, result_message>>
    /\ UNCHANGED <<dummyVars, fixtureVars, cliVars, histVars, pc>>
    /\ UNCHANGED <<orderVars, guiVars, sideVars>>

\* the test calls runner.start(), only with no run of the runner live
TestStart(w) ==
    /\ pc[w] = "idle"
    /\ runs[w] < MaxRuns
    /\ Start(w)
    /\ UNCHANGED <<name, start_gating_event, start_callback, stop_callback, running>>
    /\ UNCHANGED <<dummyVars, fixtureVars, cliVars>>
    /\ UNCHANGED <<stop_order, guiVars, sideVars>>

\* ------------------------------------------------------------ initial states

\* BaseJobRunner.__init__ and DummyRunner.__init__ for every runner
InitRunnerFields ==
    /\ stop_event = [w \in Workers |-> FALSE]
    /\ running = [w \in Workers |-> FALSE]
    /\ result = [w \in Workers |-> -1]
    /\ output = [w \in Workers |-> STR_Empty]
    /\ result_message = [w \in Workers |-> STR_Empty]
    /\ job_ran = [w \in Workers |-> FALSE]
    /\ terminated = [w \in Workers |-> FALSE]
    /\ pc = [w \in Workers |-> "idle"]
    /\ runs = [w \in Workers |-> 0]
    /\ start_cb_calls = [w \in Workers |-> 0]
    /\ job_calls = [w \in Workers |-> 0]
    /\ stop_cb_calls = [w \in Workers |-> 0]
    /\ set_calls = [w \in Workers |-> 0]
    /\ job_ret = [w \in Workers |-> NoJobRet]
    /\ stop_order = << >>
    /\ prev_final = [w \in Workers |-> <<STR_Empty, STR_Empty>>]

\* BaseRunnerTest.setUp
InitFixture ==
    /\ event_to_wait_for = FALSE
    /\ start_callback_called = FALSE
    /\ stop_callback_called = FALSE
    /\ stop_callback_result = None
    /\ stop_callback_output = None

\* Cli.__init__ lines 137-140
InitCliFields ==
    /\ result_info_list = << >>
    /\ start_callback_sema = 1
    /\ stop_callback_sema = 1
    /\ cli_pc = <<"start", 1>>
    /\ exit_code = -1

\* The mapping every caller hands to set_args: job_mocking_event=<an event>
JobMockingArgs == {<<"job_mocking_event", "Event">>}

\* After set_args(job_mocking_event=...), and before any terminate() call
InitArgs ==
    /\ setup_kwargs = [w \in Workers |-> JobMockingArgs]
    /\ term_pc = [w \in Workers |-> "idle"]

\* GuiProcessWidget.__init__ lines 220-224 and Gui before Go is pressed
InitGuiFields ==
    /\ widget_state = [w \in Workers |-> "INIT"]
    /\ process_enable_var = [w \in Workers |-> 1]
    /\ gui_pc = <<"go_button", 0>>
    /\ num_started = 0
    /\ all_done = TRUE
    /\ late_set = [w \in Workers |-> 0]
    /\ overlapped = FALSE

\* A test of BaseRunnerTest after its set_start_gating_event /
\* set_start_callback / set_stop_callback / set_args calls
Init ==
    /\ InitRunnerFields
    /\ job_mocking_event = [w \in Workers |-> FALSE]
    /\ InitFixture
    /\ InitCliFields
    /\ InitGuiFields
    /\ InitArgs
    /\ name = [w \in Workers |-> STR_base_runner]
    /\ job_result = [w \in Workers |-> -1]
    /\ \E g \in {NoEvent, ExtEvent} : start_gating_event = [w \in Workers |-> g]
    /\ \E c \in {"None", "mock"} : start_callback = [w \in Workers |-> c]
    /\ \E c \in {"None", "mock"} : stop_callback = [w \in Workers |-> c]

\* Job configurations of a runner handed to Cli: (job_result, name is None)
CliJobConfigs == {<<r, FALSE>> : r \in CliJobResults} \cup {<<0, TRUE>>}

\* Cli(runners) over ungated DummyRunners whose job_mocking_event is set ahead
\* of time (as at test line 252): a job ends whenever its thread gets to it
InitCli ==
    /\ InitRunnerFields
    /\ job_mocking_event = [w \in Workers |-> TRUE]
    /\ InitFixture
    /\ InitCliFields
    /\ InitGuiFields
    /\ InitArgs
    /\ \E cfg \in [Workers -> CliJobConfigs] :
        /\ name = [w \in Workers |-> IF cfg[w][2] THEN None ELSE NameOf(w)]
        /\ job_result = [w \in Workers |-> cfg[w][1]]
    /\ start_gating_event = [w \in Workers |-> NoEvent]
    /\ start_callback = [w \in Workers |-> "cli"]
    /\ stop_callback = [w \in Workers |-> "cli"]

\* --------------------------------------------------------- next-state, specs

Next ==
    \/ \E w \in TestWorkers :
        \/ TestStart(w)
        \/ RunBegin(w)
        \/ RunGate(w)
        \/ RunSetRunning(w)
        \/ SkipStartCallback(w)
        \/ MockStartCallback(w)
        \/ JobEnter(w)
        \/ JobReturn(w)
        \/ JobRaise(w)
        \/ RunFinally(w)
        \/ SkipStopCallback(w)
        \/ MockStopCallback(w)
        \/ RunSetStopEvent(w)
        \/ JobMockingEventSet(w)
        \/ JobMockingEventClear(w)
        \/ SetNameNone(w)
        \/ \E r \in JobResults : SetResult(w, r)
    \/ GateSet
    \/ GateClear

Spec == Init /\ [][Next]_vars

NextCli ==
    \/ CliRunStart
    \/ CliRunWait
    \/ CliDisplay
    \/ CliExit
    \/ \E w \in Workers :
        \/ RunBegin(w)
        \/ RunSetRunning(w)
        \/ CliStartAcquire(w)
        \/ CliStartRelease(w)
        \/ JobEnter(w)
        \/ JobReturn(w)
        \/ JobRaise(w)
        \/ RunFinally(w)
        \/ CliStopAcquire(w)
        \/ CliStopAppend(w)
        \/ RunSetStopEvent(w)

SpecCli == InitCli /\ [][NextCli]_vars


\* ExampleApp.get_runners line 738: result = i % 2 (0-based i)
ExampleResult(w) == (w - 1) % 2

\* Gui over the first NumWidgets runners of a collection like ExampleApp's:
\* DummyRunners with the constructor's callbacks, results i % 2, gated or not
\* on each other's stop_event (ExampleApp gates on runners[0].stop_event), and
\* whose job ends whenever its thread gets to it
InitGui ==
    /\ InitRunnerFields
    /\ job_mocking_event = [w \in Workers |-> TRUE]
    /\ InitFixture
    /\ InitCliFields
    /\ InitGuiFields
    /\ InitArgs
    /\ name = [w \in Workers |-> NameOf(w)]
    /\ job_result = [w \in Workers |-> ExampleResult(w)]
    /\ \E g \in [GuiWorkers -> GateChoices(GuiWorkers)] :
        start_gating_event = [w \in Workers |-> IF w \in GuiWorkers THEN g[w] ELSE NoEvent]
    /\ start_callback = [w \in Workers |-> "dummy_method"]
    /\ stop_callback = [w \in Workers |-> "dummy_method"]

NextGui ==
    \/ GoAction
    \/ WidgetStart
    \/ WidgetStartNotSelected
    \/ PollDone
    \/ ResetAction
    \/ \E w \in GuiWorkers :
        \/ ToggleCheckButton(w)
        \/ RunBegin(w)
        \/ RunGate(w)
        \/ RunSetRunning(w)
        \/ DummyStartCallback(w)
        \/ JobEnter(w)
        \/ JobReturn(w)
        \/ RunFinally(w)
        \/ DummyStopCallback(w)
        \/ RunSetStopEvent(w)
        \/ LateSetStopEvent(w)

SpecGui == InitGui /\ [][NextGui]_vars

\* The job configuration of the w-th runner of a gated collection: result 0,
\* result 1, name None, and so on in turn
GatedJobConfig(w) ==
    IF (w - 1) % 3 = 2 THEN <<0, TRUE>> ELSE <<(w - 1) % 3, FALSE>>

\* Cli(runners) over DummyRunners each of which is ungated, gated on an event
\* nobody sets, or gated on the stop_event of a runner of the collection
InitGated ==
    /\ InitRunnerFields
    /\ job_mocking_event = [w \in Workers |-> TRUE]
    /\ InitFixture
    /\ InitCliFields
    /\ InitGuiFields
    /\ InitArgs
    /\ name = [w \in Workers |-> IF GatedJobConfig(w)[2] THEN None ELSE NameOf(w)]
    /\ job_result = [w \in Workers |-> GatedJobConfig(w)[1]]
    /\ start_gating_event \in [Workers -> GateChoices(Workers) \cup {ExtEvent}]
    /\ start_callback = [w \in Workers |-> "cli"]
    /\ stop_callback = [w \in Workers |-> "cli"]

NextGated ==
    \/ NextCli
    \/ \E w \in Workers : RunGate(w)

SpecGated == InitGated /\ [][NextGated]_vars

\* The runners whose gate is None or the stop_event of a runner of S.
GateOpenedBy(S) ==
    {w \in Workers : \/ start_gating_event[w] = NoEvent
                     \/ \E v \in S : start_gating_event[w] = StopEventOf(v)}

\* The runners whose gate leads through stop_events back to an ungated runner
\* in at most n steps.
RECURSIVE GateChainEnds(_)
GateChainEnds(n) == IF n = 0 THEN {} ELSE GateOpenedBy(GateChainEnds(n - 1))

\* The runners that are ungated or gated, with no cycle, on an ungated runner
\* of the collection.
AcyclicallyGated == GateChainEnds(NumRunners)

\* Cli(runners) when every gate is None or the stop_event of a runner of the
\* collection and the gates form no cycle, under fair scheduling: a thread
\* that can take a step is scheduled sooner or later.
InitFair == InitGated /\ AcyclicallyGated = Workers

SpecFair == InitFair /\ [][NextGated]_vars /\ WF_vars(NextGated)

\* ------------------------------------------------- Gui, fair scheduling

\* The runners gated as in ExampleApp.get_runners (lines 769-770): the first
\* one ungated, every other one ungated or gated on runners[0].stop_event
InitGuiFair ==
    /\ InitGui
    /\ start_gating_event[1] = NoEvent
    /\ \A w \in GuiWorkers : start_gating_event[w] \in {NoEvent, StopEventOf(1)}

\* The steps of the run threads of runner w
GuiThread(w) ==
    \/ RunBegin(w)
    \/ RunGate(w)
    \/ RunSetRunning(w)
    \/ DummyStartCallback(w)
    \/ JobEnter(w)
    \/ JobReturn(w)
    \/ RunFinally(w)
    \/ DummyStopCallback(w)
    \/ RunSetStopEvent(w)
    \/ LateSetStopEvent(w)

\* The steps Tk's main loop takes by itself: the rest of go_action once Go was
\* pressed, and the polling loop re-armed by root.after(250, ...)
GuiMainLoop ==
    \/ WidgetStart
    \/ WidgetStartNotSelected
    \/ PollDone

\* Gui where every thread that can take a step is scheduled sooner or later
\* and the main loop keeps running its handlers; the user's clicks (check
\* buttons, Go, Reset) may or may not come
SpecGuiFair ==
    /\ InitGuiFair
    /\ [][NextGui]_vars
    /\ WF_vars(GuiMainLoop)
    /\ \A w \in GuiWorkers : WF_vars(GuiThread(w))

\* ------------------------------------------------------------ set_args()

\* The mappings of the tests: job_mocking_event alone (line 61), or with
\* some_arg="Bla Bla" (lines 111-112)
ArgChoices == {JobMockingArgs, JobMockingArgs \cup {<<"some_arg", "Bla Bla">>}}

\* set_args(**kwargs), called by the test before start(): the mapping is
\* replaced as a whole
SetArgs(w, kw) ==
    /\ pc[w] = "idle"
    /\ setup_kwargs' = [setup_kwargs EXCEPT ![w] = kw]
    /\ UNCHANGED <<runnerVars, dummyVars, fixtureVars, cliVars, histVars>>
    /\ UNCHANGED <<orderVars, guiVars, term_pc, pc>>

NextArgs ==
    \/ Next
    \/ \E w \in TestWorkers, kw \in ArgChoices : SetArgs(w, kw)

SpecArgs == Init /\ [][NextArgs]_vars

\* ------------------------------------------------- callbacks that raise

\* line 94 with a start_callback that raises: the call stands before the try
\* of line 96, so the exception leaves run() and the thread ends there
RaisingStartCallback(w) ==
    /\ pc[w] = "start_callback"
    /\ start_callback[w] = "raising"
    /\ start_cb_calls' = [start_cb_calls EXCEPT ![w] = @ + 1]
    /\ pc' = [pc EXCEPT ![w] = "idle"]
    /\ UNCHANGED <<runnerVars, dummyVars, fixtureVars, cliVars>>
    /\ UNCHANGED <<runs, job_calls, stop_cb_calls, set_calls, job_ret>>
    /\ UNCHANGED <<orderVars, guiVars, sideVars>>

\* line 110 with a stop_callback that raises: the exception leaves the
\* finally block, line 111 is not executed and the thread ends
RaisingStopCallback(w) ==
    /\ pc[w] = "stop_callback"
    /\ stop_callback[w] = "raising"
    /\ stop_cb_calls' = [stop_cb_calls EXCEPT ![w] = @ + 1]
    /\ pc' = [pc EXCEPT ![w] = "idle"]
    /\ UNCHANGED <<runnerVars, dummyVars, fixtureVars, cliVars>>
    /\ UNCHANGED <<runs, start_cb_calls, job_calls, set_calls, job_ret>>
    /\ UNCHANGED <<orderVars, guiVars, sideVars>>

\* The test harness with callbacks that are None, the mocks, or callables
\* that raise
InitRaise ==
    /\ InitRunnerFields
    /\ job_mocking_event = [w \in Workers |-> FALSE]
    /\ InitFixture
    /\ InitCliFields
    /\ InitGuiFields
    /\ InitArgs
    /\ name = [w \in Workers |-> STR_base_runner]
    /\ job_result = [w \in Workers |-> -1]
    /\ \E g \in {NoEvent, ExtEvent} : start_gating_event = [w \in Workers |-> g]
    /\ \E c \in {"None", "mock", "raising"} : start_callback = [w \in Workers |-> c]
    /\ \E c \in {"None", "mock", "raising"} : stop_callback = [w \in Workers |-> c]

NextRaise ==
    \/ Next
    \/ \E w \in TestWorkers :
        \/ RaisingStartCallback(w)
        \/ RaisingStopCallback(w)

SpecRaise == InitRaise /\ [][NextRaise]_vars

\* ------------------------------------------------ DummyRunner.terminate

\* The run thread is live and its job body has not returned
JobNotReturned(w) ==
    pc[w] \in {"run", "gate_wait", "set_running", "start_callback", "job", "job_wait"}

\* line 723, on the thread that calls terminate() (the Gui's Terminate
\* button, line 355) during a run whose job body has not returned:
\* setup_kwargs['job_mocking_event'].set()
TerminateSetEvent(w) ==
    /\ term_pc[w] = "idle"
    /\ JobNotReturned(w)
    /\ <<"job_mocking_event", "Event">> \in setup_kwargs[w]
    /\ job_mocking_event' = [job_mocking_event EXCEPT ![w] = TRUE]
    /\ term_pc' = [term_pc EXCEPT ![w] = "set_flag"]
    /\ UNCHANGED <<runnerVars, job_ran, terminated, job_result, fixtureVars, cliVars,
                   histVars, pc>>
    /\ UNCHANGED <<orderVars, guiVars, setup_kwargs>>

\* line 724: self.terminated = True
TerminateSetFlag(w) ==
    /\ term_pc[w] = "set_flag"
    /\ terminated' = [terminated EXCEPT ![w] = TRUE]
    /\ term_pc' = [term_pc EXCEPT ![w] = "done"]
    /\ UNCHANGED <<runnerVars, job_ran, job_result, job_mocking_event, fixtureVars,
                   cliVars, histVars, pc>>
    /\ UNCHANGED <<orderVars, guiVars, setup_kwargs>>

NextTerm ==
    \/ Next
    \/ \E w \in TestWorkers :
        \/ TerminateSetEvent(w)
        \/ TerminateSetFlag(w)

SpecTerm == Init /\ [][NextTerm]_vars

\* ------------------------------------------- a BaseJobRunner not subclassed

STR_Override == <<"O","v","e","r","r","i","d","e"," ","t","h","i","s"," ",
                  "m","e","t","h","o","d">>

\* line 97 entering BaseJobRunner.job (lines 113-118)
BaseJobEnter(w) ==
    /\ pc[w] = "job"
    /\ job_calls' = [job_calls EXCEPT ![w] = @ + 1]
    /\ pc' = [pc EXCEPT ![w] = "base_job"]
    /\ UNCHANGED <<runnerVars, dummyVars, fixtureVars, cliVars>>
    /\ UNCHANGED <<runs, start_cb_calls, stop_cb_calls, set_calls, job_ret>>
    /\ UNCHANGED <<orderVars, guiVars, sideVars>>

\* line 119: return 1, "Override this method"; then run lines 97-98
BaseJobReturn(w) ==
    /\ pc[w] = "base_job"
    /\ result' = [result EXCEPT ![w] = 1]
    /\ output' = [output EXCEPT ![w] = STR_Override]
    /\ result_message' = [result_message EXCEPT ![w] = ResultMessage(1)]
    /\ job_ret' = [job_ret EXCEPT ![w] = [kind |-> "return", code |-> 1,
                                           text |-> STR_Override]]
    /\ pc' = [pc EXCEPT ![w] = "finally"]
    /\ UNCHANGED <<name, start_gating_event, start_callback, stop_callback, stop_event,
                   running>>
    /\ UNCHANGED <<dummyVars, fixtureVars, cliVars>>
    /\ UNCHANGED <<runs, start_cb_calls, job_calls, stop_cb_calls, set_calls>>
    /\ UNCHANGED <<orderVars, guiVars, sideVars>>

BaseTerminateStopsRun(w) ==
    /\ term_pc[w] = "idle"
    /\ term_pc' = [term_pc EXCEPT ![w] = "done"]
    /\ running' = [running EXCEPT ![w] = FALSE]
    /\ stop_event' = [stop_event EXCEPT ![w] = TRUE]
    /\ UNCHANGED <<name, start_gating_event, start_callback, stop_callback,
                   result, output, result_message>>
    /\ UNCHANGED <<dummyVars, fixtureVars, cliVars, histVars>>
    /\ UNCHANGED <<orderVars, guiVars, setup_kwargs, pc>>

\* BaseJobRunner.terminate(), called from any thread at any time: it prints
\* "terminate() not implemented for <name>" and touches no field
BaseTerminate(w) ==
    /\ term_pc[w] = "idle"
    /\ term_pc' = [term_pc EXCEPT ![w] = "done"]
    /\ UNCHANGED <<runnerVars, dummyVars, fixtureVars, cliVars, histVars>>
    /\ UNCHANGED <<orderVars, guiVars, setup_kwargs, pc>>

\* A plain BaseJobRunner set up as in BaseRunnerTest
InitBase ==
    /\ Init

NextBase ==
    \/ \E w \in TestWorkers :
        \/ TestStart(w)
        \/ RunBegin(w)
        \/ RunGate(w)
        \/ RunSetRunning(w)
        \/ SkipStartCallback(w)
        \/ MockStartCallback(w)
        \/ BaseJobEnter(w)
        \/ BaseJobReturn(w)
        \/ RunFinally(w)
        \/ SkipStopCallback(w)
        \/ MockStopCallback(w)
        \/ RunSetStopEvent(w)
        \/ BaseTerminate(w)
    \/ GateSet

SpecBase == InitBase /\ [][NextBase]_vars


\* ------------------------------------------------------------------- claims

\* A run of the runner has ended: its thread returned from run().
RunEnded(w) == runs[w] > 0 /\ pc[w] = "idle"

\* C1: in every run stop_callback is invoked exactly once, and at the moment
\* it is invoked (and until it has returned) running is False and stop_event
\* is still unset.
C1_StopCallbackOnceBeforeStopEvent ==
    \A w \in TestWorkers :
        /\ stop_cb_calls[w] <= 1
        /\ pc[w] = "stop_callback" =>
              ~running[w] /\ ~stop_event[w] /\ stop_cb_calls[w] = 0
        /\ pc[w] = "set_stop_event" => ~running[w] /\ ~stop_event[w]
        /\ (pc[w] = "set_stop_event" \/ RunEnded(w)) =>
              stop_cb_calls[w] = (IF stop_callback[w] = "None" THEN 0 ELSE 1)

\* C1 witness: the second run of a runner with the mock stop callback has
\* called it and not yet set stop_event.
C1_Witness ==
    /\ pc[1] = "set_stop_event"
    /\ stop_callback[1] = "mock"
    /\ stop_callback_called
    /\ stop_cb_calls[1] = 1
    /\ runs[1] = 2

\* C2: stop_event goes from unset to set exactly once per run, by the run's
\* last step after its stop_callback has returned, and a set stop_event is
\* cleared only by the next start().
C2_StopEventSetOncePerRun ==
    /\ [](\A w \in TestWorkers :
            /\ set_calls[w] <= 1
            /\ RunEnded(w) => set_calls[w] = 1 /\ stop_event[w]
            /\ (runs[w] > 0 /\ ~RunEnded(w)) => set_calls[w] = 0 /\ ~stop_event[w])
    /\ [][\A w \in TestWorkers :
            /\ (~stop_event[w] /\ stop_event'[w]) =>
                  /\ pc[w] = "set_stop_event"
                  /\ pc'[w] = "idle"
                  /\ runs'[w] = runs[w]
                  /\ stop_cb_calls[w] = (IF stop_callback[w] = "None" THEN 0 ELSE 1)
            /\ (stop_event[w] /\ ~stop_event'[w]) =>
                  /\ pc[w] = "idle"
                  /\ pc'[w] = "run"
                  /\ runs'[w] = runs[w] + 1]_vars

\* C2 witness: the second run has set the stop_event that the second start()
\* cleared.
C2_Witness ==
    /\ runs[1] = 2
    /\ RunEnded(1)
    /\ stop_event[1]
    /\ set_calls[1] = 1
    /\ stop_callback[1] = "mock"

\* The gate of the live run has not been signaled since its start():
\* event_to_wait_for is cleared only between runs.
GateUnsignaledSinceStart(w) ==
    /\ start_gating_event[w] = ExtEvent
    /\ ~event_to_wait_for
    /\ runs[w] > 0
    /\ pc[w] # "idle"

\* C3: with a start_gating_event that is not None and not signaled, after
\* start() running stays False, start_callback is not invoked, the job is not
\* entered and stop_event stays unset.
C3_GatedRunWaits ==
    \A w \in TestWorkers :
        GateUnsignaledSinceStart(w) =>
            /\ ~running[w]
            /\ start_cb_calls[w] = 0
            /\ job_calls[w] = 0
            /\ job_ret[w] = NoJobRet
            /\ ~stop_event[w]
            /\ pc[w] \in {"run", "gate_wait"}

\* C3 witness: a second run blocked at its unsignaled gate while the job's
\* own event is already set.
C3_Witness ==
    /\ GateUnsignaledSinceStart(1)
    /\ pc[1] = "gate_wait"
    /\ runs[1] = 2
    /\ job_mocking_event[1]
    /\ start_callback[1] = "mock"

\* C4: once past the gate start_callback is invoked exactly once, before the
\* job body begins; running is True when it is invoked and stays True until
\* the job body has returned or raised.
C4_StartCallbackOnceBeforeJob ==
    \A w \in TestWorkers :
        /\ start_cb_calls[w] <= 1
        /\ job_calls[w] <= 1
        /\ pc[w] = "start_callback" =>
              running[w] /\ start_cb_calls[w] = 0 /\ job_calls[w] = 0
        /\ pc[w] \in {"job", "job_wait"} => running[w] /\ job_ret[w] = NoJobRet
        /\ (pc[w] = "job" \/ job_calls[w] > 0 \/ RunEnded(w)) =>
              start_cb_calls[w] = (IF start_callback[w] = "None" THEN 0 ELSE 1)
        /\ (pc[w] = "start_callback" \/ job_calls[w] > 0) =>
              start_gating_event[w] = NoEvent \/ runs[w] > 0

\* C4 witness: a gated second run is inside its job body after the mock start
\* callback ran once.
C4_Witness ==
    /\ pc[1] = "job_wait"
    /\ runs[1] = 2
    /\ start_gating_event[1] = ExtEvent
    /\ start_callback[1] = "mock"
    /\ start_callback_called
    /\ start_cb_calls[1] = 1
    /\ running[1]


\* The texts the claims name, written out.
LIT_Success == <<"S","u","c","c","e","s","s">>
LIT_FAIL_1 == <<"F","A","I","L"," ","(","1",")">>
LIT_FAIL_minus1 == <<"F","A","I","L"," ","(","-","1",")">>
LIT_FAIL_255 == <<"F","A","I","L"," ","(","2","5","5",")">>
LIT_FAIL_Exception ==
    <<"F","A","I","L"," ","(","E","x","c","e","p","t","i","o","n",")">>
LIT_TypeError_line ==
    <<"\n","T","y","p","e","E","r","r","o","r",":"," ","m","u","s","t"," ","b","e"," ",
      "s","t","r",","," ","n","o","t"," ","N","o","n","e","T","y","p","e">>

\* "Success" for 0 and "FAIL (N)" for the nonzero codes of JobResults
ExpectedOutcomeText(code) ==
    CASE code = 0 -> LIT_Success
      [] code = 1 -> LIT_FAIL_1
      [] code = -1 -> LIT_FAIL_minus1
      [] code = 255 -> LIT_FAIL_255

\* The run has left the job body and has called (or skipped) stop_callback.
AfterStopCallback(w) == pc[w] = "set_stop_event" \/ RunEnded(w)

\* C5: a job that raises does not leave run(): result_message is exactly
\* "FAIL (Exception)", output is the prior output plus "\n<type>: <message>",
\* and the run still sets running False, calls stop_callback with these
\* values and sets stop_event.
C5_FaultIsContained ==
    /\ [](\A w \in TestWorkers :
            job_ret[w].kind = "raise" =>
                /\ result_message[w] = LIT_FAIL_Exception
                /\ output[w] = LIT_TypeError_line
                /\ pc[w] \in {"finally", "stop_callback", "set_stop_event", "idle"}
                /\ pc[w] # "finally" => ~running[w]
                /\ (AfterStopCallback(w) /\ stop_callback[w] = "mock") =>
                      /\ stop_cb_calls[w] = 1
                      /\ stop_callback_result = LIT_FAIL_Exception
                      /\ stop_callback_output = LIT_TypeError_line
                /\ stop_event[w] = (pc[w] = "idle")
                /\ set_calls[w] = (IF pc[w] = "idle" THEN 1 ELSE 0))
    /\ [][\A w \in TestWorkers :
            (job_ret[w].kind = "none" /\ job_ret'[w].kind = "raise") =>
                /\ output'[w] = output[w] \o LIT_TypeError_line
                /\ result_message'[w] = LIT_FAIL_Exception
                /\ pc'[w] = "finally"]_vars

\* C5 witness: a run whose job raised has ended with stop_event set after the
\* mock stop callback received the fault's outcome.
C5_Witness ==
    /\ RunEnded(1)
    /\ job_ret[1].kind = "raise"
    /\ stop_event[1]
    /\ ~running[1]
    /\ stop_callback[1] = "mock"
    /\ stop_callback_result = LIT_FAIL_Exception

\* C6: for every result code the job returns, result_message and the outcome
\* text passed to stop_callback are "Success" for 0 and "FAIL (N)" for a
\* nonzero N, and the output passed is the job's output unchanged.
C6_OutcomeTextOfResultCode ==
    \A w \in TestWorkers :
        job_ret[w].kind = "return" =>
            /\ result[w] = job_ret[w].code
            /\ result_message[w] = ExpectedOutcomeText(job_ret[w].code)
            /\ output[w] = job_ret[w].text
            /\ (AfterStopCallback(w) /\ stop_callback[w] = "mock") =>
                  /\ stop_callback_result = ExpectedOutcomeText(job_ret[w].code)
                  /\ stop_callback_output = job_ret[w].text

\* C6 witness: the mock stop callback received "FAIL (255)" for a job that
\* returned 255.
C6_Witness ==
    /\ AfterStopCallback(1)
    /\ job_ret[1].kind = "return"
    /\ job_ret[1].code = 255
    /\ stop_callback[1] = "mock"
    /\ stop_callback_result = LIT_FAIL_255

\* What a run that started from reset fields ends with, given what its job did
ExpectedFinal(w) ==
    IF job_ret[w].kind = "raise"
    THEN <<LIT_FAIL_Exception, LIT_TypeError_line>>
    ELSE <<ExpectedOutcomeText(job_ret[w].code), job_ret[w].text>>

\* C7: start() on a runner whose previous run has set stop_event leaves
\* stop_event unset and result/output/result_message at -1/""/""; the new run
\* waits at its gate, calls start_callback, job, stop_callback and
\* stop_event.set() once each, and ends with the result_message and output of
\* its own job.
C7_RunsAgain ==
    /\ [](\A w \in TestWorkers :
            runs[w] >= 2 =>
                /\ start_cb_calls[w] <= 1 /\ job_calls[w] <= 1
                /\ stop_cb_calls[w] <= 1 /\ set_calls[w] <= 1
                /\ job_ret[w].kind = "none" =>
                      /\ ~stop_event[w]
                      /\ result[w] = -1
                      /\ output[w] = STR_Empty
                      /\ result_message[w] = STR_Empty
                /\ RunEnded(w) =>
                      /\ stop_event[w] /\ set_calls[w] = 1 /\ job_calls[w] = 1
                      /\ start_cb_calls[w] = (IF start_callback[w] = "None" THEN 0 ELSE 1)
                      /\ stop_cb_calls[w] = (IF stop_callback[w] = "None" THEN 0 ELSE 1)
                      /\ <<result_message[w], output[w]>> = ExpectedFinal(w))
    /\ [][\A w \in TestWorkers :
            (runs[w] >= 1 /\ runs'[w] = runs[w] + 1 /\ stop_event[w]) =>
                /\ ~stop_event'[w]
                /\ result'[w] = -1
                /\ output'[w] = STR_Empty
                /\ result_message'[w] = STR_Empty
                /\ ~running'[w]
                /\ pc'[w] = "run"]_vars

\* C7 witness: a second run ended with "Success" on a runner whose first run
\* had ended with "FAIL (1)".
C7_Witness ==
    /\ runs[1] = 2
    /\ RunEnded(1)
    /\ stop_event[1]
    /\ prev_final[1][1] = LIT_FAIL_1
    /\ result_message[1] = LIT_Success
    /\ start_gating_event[1] = ExtEvent

\* Cli.run() has seen every stop_event and is at or past line 206.
Aggregating == cli_pc[1] \in {"display", "exit", "exited"}

\* The record a runner's stop callback is to append, given what its job did
ExpectedRecord(w) == <<name[w], ExpectedFinal(w)[1], ExpectedFinal(w)[2]>>

\* C8: when Cli.run() begins aggregating, result_info_list holds exactly one
\* (name, result_message, output) record per runner, whatever the
\* interleaving and whether the jobs succeeded, failed or raised.
C8_OneRecordPerRunner ==
    Aggregating =>
        /\ Len(result_info_list) = NumRunners
        /\ \A w \in Workers : job_ret[w].kind # "none" /\ StopRecord(w) = ExpectedRecord(w)
        /\ \E f \in [1..NumRunners -> Workers] :
              /\ \A i, j \in 1..NumRunners : f[i] = f[j] => i = j
              /\ \A i \in 1..NumRunners : result_info_list[i] = ExpectedRecord(f[i])

\* C8 witness: aggregation begins after one job succeeded, one failed and one
\* raised.
C8_Witness ==
    /\ cli_pc[1] = "display"
    /\ \E w \in Workers : job_ret[w].kind = "raise"
    /\ \E w \in Workers : job_ret[w].kind = "return" /\ job_ret[w].code = 0
    /\ \E w \in Workers : job_ret[w].kind = "return" /\ job_ret[w].code = 1

\* C9 as claimed: at aggregation the records are in construction order.
C9_ConstructionOrder ==
    Aggregating =>
        /\ Len(result_info_list) = NumRunners
        /\ \A i \in 1..NumRunners : result_info_list[i] = ExpectedRecord(i)

\* ExampleApp's jobs: runner i (0-based) returns i % 2, so the first three
\* return (0, 1, 0).
AlternatingJobs ==
    \A w \in Workers : job_ret[w].kind = "return" /\ job_ret[w].code = (w - 1) % 2

\* C9 amended: the records are in the order in which the runners entered
\* call_when_runner_stops (completion order), one per runner once Cli.run()
\* aggregates; with jobs returning (0, 1, 0, ...) the second runner's record,
\* wherever it stands, is the one with "FAIL (1)".
C9_CompletionOrder ==
    /\ Len(result_info_list) <= Len(stop_order)
    /\ Len(stop_order) <= Len(result_info_list) + 1
    /\ \A i, j \in 1..Len(stop_order) : stop_order[i] = stop_order[j] => i = j
    /\ \A i \in 1..Len(result_info_list) :
          result_info_list[i] = ExpectedRecord(stop_order[i])
    /\ Aggregating => Len(result_info_list) = NumRunners
    /\ (Aggregating /\ AlternatingJobs) =>
          \A i \in 1..NumRunners :
              (result_info_list[i][2] = LIT_FAIL_1) = (stop_order[i] % 2 = 0)

\* C9 witness: jobs returning (0, 1, 0, ...), the second runner finished
\* first, so the middle record is not the one with "FAIL (1)".
C9_Witness ==
    /\ Aggregating
    /\ AlternatingJobs
    /\ stop_order[1] = 2
    /\ result_info_list[1][2] = LIT_FAIL_1
    /\ result_info_list[2][2] = LIT_Success

\* C10: the exit code is 1 exactly when some recorded outcome text does not
\* contain "Success", and 0 when every job returned 0.
C10_ExitCode ==
    cli_pc[1] = "exited" =>
        /\ exit_code \in {0, 1}
        /\ (exit_code = 1) =
              (\E i \in 1..Len(result_info_list) :
                  ~Contains(LIT_Success, result_info_list[i][2]))
        /\ (exit_code = 0) =
              (\A w \in Workers : job_ret[w].kind = "return" /\ job_ret[w].code = 0)

\* C10 witness: exit code 1 although the first record is a "Success".
C10_Witness ==
    /\ cli_pc[1] = "exited"
    /\ exit_code = 1
    /\ result_info_list[1][2] = LIT_Success
    /\ \E w \in Workers : job_ret[w].kind = "raise"


\* The pairs <<A, B>> of distinct runners with B's gate equal to A's stop_event.
GatedPairs(S) ==
    {ab \in S \X S : ab[1] # ab[2] /\ start_gating_event[ab[2]] = StopEventOf(ab[1])}

\* The run of w has passed the gate: line 92 or a later line was executed.
PassedGate(w) ==
    \/ pc[w] \in {"start_callback", "cli_starting", "job", "job_wait", "finally",
                  "stop_callback", "cli_stopping", "set_stop_event"}
    \/ pc[w] = "idle" /\ runs[w] > 0

\* C11: with B's gate equal to A's stop_event and both started for the first
\* time, B does not pass its gate, B.running is not True and B's start_callback
\* is not invoked before A's stop_event is set, which is after A's stop
\* callback has returned.
C11_GatedFirstRunWaitsForStopEvent ==
    \A ab \in GatedPairs(Workers) :
        (PassedGate(ab[2]) \/ running[ab[2]] \/ start_cb_calls[ab[2]] > 0)
            => /\ stop_event[ab[1]]
               /\ set_calls[ab[1]] = 1
               /\ stop_cb_calls[ab[1]] = 1
               /\ pc[ab[1]] = "idle"

\* A was started, then B, and B waits at its gate while A's job runs.
C11_Witness ==
    \E ab \in GatedPairs(Workers) :
        /\ ab[1] < ab[2]
        /\ pc[ab[2]] = "gate_wait"
        /\ running[ab[1]]
        /\ pc[ab[1]] = "job_wait"


\* The widget's runner was started by the Go of the round under way.
StartedThisRound(w) ==
    /\ process_enable_var[w] = 1
    /\ widget_state[w] \in {"WAITING", "RUNNING", "DONE"}

\* C12: with B's gate equal to A's stop_event, in every round in which A and B
\* are both started (first run, or a re-run after both runs completed, in
\* either start order) B's start_callback of the round is not invoked before
\* A's run of the same round has set stop_event. (Rounds in which start() met
\* no live thread, the two runners having been started equally often.)
C12_EveryRoundWaitsForStopEvent ==
    \A ab \in GatedPairs(GuiWorkers) :
        (/\ ~overlapped
         /\ runs[ab[1]] = runs[ab[2]]
         /\ StartedThisRound(ab[1])
         /\ StartedThisRound(ab[2])
         /\ start_cb_calls[ab[2]] > 0)
            => set_calls[ab[1]] > 0


\* The runners whose current run has returned from its stop callback.
ReturnedFromStopCallback ==
    {w \in Workers : stop_cb_calls[w] = 1 /\ pc[w] \in {"set_stop_event", "idle"}}

\* C13: at most one runner's thread is inside the guarded region of
\* call_when_runner_stops; result_info_list has exactly one record for each
\* run that has returned from the stop callback, in the order the runs entered
\* the region, none lost and none twice; and a step never changes or removes
\* a record that is already in the list.
C13_StopRegionExclusiveAppendOnly ==
    /\ [](/\ Cardinality({w \in Workers : pc[w] = "cli_stopping"}) <= 1
          /\ Len(result_info_list) = Cardinality(ReturnedFromStopCallback)
          /\ \A i \in 1..Len(result_info_list) :
                /\ stop_order[i] \in ReturnedFromStopCallback
                /\ result_info_list[i] = StopRecord(stop_order[i])
                /\ \A j \in 1..Len(result_info_list) :
                      stop_order[i] = stop_order[j] => i = j)
    /\ [][/\ Len(result_info_list') >= Len(result_info_list)
          /\ SubSeq(result_info_list', 1, Len(result_info_list)) = result_info_list]_vars

\* One runner is inside the region after another has appended its record, and
\* a third is held at the entry.
C13_Witness ==
    \E u, v, w \in Workers :
        /\ pc[u] = "cli_stopping"
        /\ pc[v] = "stop_callback"
        /\ w \in ReturnedFromStopCallback
        /\ Len(result_info_list) = 1
        /\ stop_callback_sema = 0


\* The runners whose thread is inside the guarded region of
\* call_when_runner_starts, and of call_when_runner_stops.
InStartRegion == {w \in Workers : pc[w] = "cli_starting"}
InStopRegion == {w \in Workers : pc[w] = "cli_stopping"}

\* C14: at most one thread is inside the guarded region of
\* call_when_runner_starts; each of the two semaphores counts 1 minus the
\* number of threads inside its own region, so it stays in {0, 1} and is
\* released as often as acquired; no thread is inside both regions; a thread
\* at the entry of the stop region finds its semaphore free whenever the stop
\* region is empty, whoever is inside the start region; and, under fair
\* scheduling, a thread that has reached the entry of a region gets in: the
\* only step that leaves an entry is the acquire, and from some point on no
\* thread is left at an entry.
C14_StartRegionExclusiveSemaphoresDistinct ==
    /\ [](/\ Cardinality(InStartRegion) <= 1
          /\ start_callback_sema = 1 - Cardinality(InStartRegion)
          /\ stop_callback_sema = 1 - Cardinality(InStopRegion)
          /\ start_callback_sema \in {0, 1}
          /\ stop_callback_sema \in {0, 1}
          /\ InStartRegion \cap InStopRegion = {}
          /\ \A w \in Workers :
                (pc[w] = "stop_callback" /\ InStopRegion = {}) => stop_callback_sema > 0)
    /\ <>[](\A w \in Workers : pc[w] \notin {"start_callback", "stop_callback"})

\* One thread is inside the start region while another is inside the stop
\* region and a third is held at the entry of the start region.
C14_Witness ==
    \E u, v, w \in Workers :
        /\ pc[u] = "cli_starting"
        /\ pc[v] = "cli_stopping"
        /\ pc[w] = "start_callback"
        /\ start_callback_sema = 0
        /\ stop_callback_sema = 0


\* C15: Cli.run starts the runners in collection order, then waits on their
\* stop_events in the same order, and reaches aggregation only when every
\* stop_event has been observed set; with every job ending, every gate None or
\* the stop_event of a runner of the collection, no cycle among the gates and
\* fair scheduling, run() reaches aggregation whatever order the runners
\* finish in.
C15_RunReachesAggregation ==
    /\ [](/\ cli_pc[1] = "start" =>
                \A w \in Workers : runs[w] = (IF w < cli_pc[2] THEN 1 ELSE 0)
          /\ cli_pc[1] = "wait" =>
                /\ \A w \in Workers : runs[w] = 1
                /\ \A w \in Workers : w < cli_pc[2] => stop_event[w]
          /\ Aggregating => \A w \in Workers : runs[w] = 1 /\ stop_event[w])
    /\ <>Aggregating

\* run() has reached aggregation in a collection with a gated runner, the
\* runners having finished in another order than the collection's.
C15_Witness ==
    /\ Aggregating
    /\ GatedPairs(Workers) # {}
    /\ Len(stop_order) = NumRunners
    /\ \E i \in 1..NumRunners : stop_order[i] # i


\* C16: the wait at the gate has no timeout. A runner whose gate is an event
\* nobody sets, or whose gate leads through stop_events into a cycle, never
\* gets past line 90: its start_callback is not invoked, its job body is not
\* entered, its stop_event is not set; and Cli.run, waiting on it, does not
\* reach aggregation.
C16_UnsignaledGateBlocksForever ==
    /\ \A w \in Workers \ AcyclicallyGated :
          /\ ~PassedGate(w)
          /\ ~running[w]
          /\ start_cb_calls[w] = 0
          /\ job_calls[w] = 0
          /\ stop_cb_calls[w] = 0
          /\ set_calls[w] = 0
          /\ ~stop_event[w]
    /\ AcyclicallyGated # Workers => ~Aggregating

\* Two runners gated on each other and a third gated on an event nobody sets
\* are all held at line 90 while Cli.run waits on the first stop_event.
C16_Witness ==
    \E a, b, c \in Workers :
        /\ a # b
        /\ start_gating_event[a] = StopEventOf(b)
        /\ start_gating_event[b] = StopEventOf(a)
        /\ start_gating_event[c] = ExtEvent
        /\ pc[a] = "gate_wait" /\ pc[b] = "gate_wait" /\ pc[c] = "gate_wait"
        /\ cli_pc = <<"wait", 1>>


\* The step is one of the thread executing run() for w.
RunThreadStep(w) == pc[w] # "idle" /\ pc'[w] # pc[w]

\* The step is a call of w.start().
StartStep(w) == runs'[w] = runs[w] + 1

\* The step changes one of the five fields of w.
WritesState(w) ==
    \/ running'[w] # running[w]
    \/ result'[w] # result[w]
    \/ output'[w] # output[w]
    \/ result_message'[w] # result_message[w]
    \/ stop_event'[w] # stop_event[w]

\* C17: running, result, output, result_message and stop_event of a runner are
\* written only by the thread that executes the runner's run(); no step of
\* another thread, such as the one calling start(), changes any of them.
C17_WrittenOnlyByRunThread ==
    [][\A w \in Workers : WritesState(w) => RunThreadStep(w)]_vars

\* C17 as the code has it: the five fields are written by the thread that
\* executes run() and by start() on its caller's thread, which resets result,
\* output and result_message and clears stop_event (lines 76-80) and leaves
\* running alone; no other step (set_result, set/clear of the events, a
\* change of name) writes any of them, and no callback does.
C17_WrittenByRunThreadAndStart ==
    [][\A w \in Workers :
          /\ WritesState(w) => (RunThreadStep(w) \/ StartStep(w))
          /\ StartStep(w) =>
                /\ running'[w] = running[w]
                /\ result'[w] = -1
                /\ output'[w] = STR_Empty
                /\ result_message'[w] = STR_Empty
                /\ ~stop_event'[w]
          /\ pc[w] \in {"start_callback", "stop_callback"} /\ pc'[w] # pc[w]
                => ~WritesState(w)]_vars

\* start() of a second run has just overwritten the "Success" and the set
\* stop_event the first run left.
C17_Witness ==
    /\ runs[1] = 2
    /\ pc[1] = "run"
    /\ prev_final[1][1] = LIT_Success
    /\ result_message[1] = STR_Empty
    /\ result[1] = -1
    /\ ~stop_event[1]


\* C18: under sequential use, running is False before the first start() (and
\* stop_event unset), False whenever stop_event is set, and True only while
\* the current run is past its gate (line 92 executed) and has not yet
\* executed line 108, the first statement after the job body; so running and
\* stop_event.is_set() are never both true.
C18_RunningAndStopEventExclusive ==
    \A w \in Workers :
        /\ runs[w] = 0 => ~running[w] /\ ~stop_event[w]
        /\ stop_event[w] => ~running[w]
        /\ running[w] =>
              /\ runs[w] > 0
              /\ pc[w] \in {"start_callback", "job", "job_wait", "finally"}
        /\ ~(running[w] /\ stop_event[w])

\* The job of a second run is under way: running is True again and the
\* stop_event the first run set has been cleared.
C18_Witness ==
    /\ runs[1] = 2
    /\ pc[1] = "job_wait"
    /\ running[1]
    /\ ~stop_event[1]
    /\ prev_final[1][1] # STR_Empty


\* C19: the poller (poll_done) has a started runner's widget in DONE, reached
\* from WAITING or from RUNNING, only when the runner's running is False and
\* its stop_event is set: DONE is never shown while the run has not yet set
\* stop_event. (Runs whose start() met no live thread.)
C19_DoneOnlyWhenStopEventSet ==
    \A w \in GuiWorkers :
        (/\ widget_state[w] = "DONE"
         /\ StartedThisRound(w)
         /\ ~overlapped)
            => /\ ~running[w]
               /\ stop_event[w]
               /\ set_calls[w] = 1


\* The record of runner w as its own configuration alone determines it: the
\* name and job_result it was given.
OwnRecord(w) ==
    IF name[w] = None
    THEN <<None, LIT_FAIL_Exception, LIT_TypeError_line>>
    ELSE <<name[w], ExpectedOutcomeText(job_result[w]), STR_Output_from \o name[w]>>

TerminateFrame(w) ==
    <<running[w], result[w], output[w], result_message[w], stop_event[w], pc[w]>>

\* C21: the base BaseJobRunner.terminate() is a no-op on the worker's state at
\* whatever point it is called (before start, at the gate, while the job runs,
\* after completion): the step leaves running, result, output, result_message,
\* stop_event and the position of the run thread as they were, and a run ends
\* with the base job's outcome whether or not terminate() was called.
C21_BaseTerminateIsNoOp ==
    /\ [](\A w \in TestWorkers :
            RunEnded(w) =>
                /\ result[w] = 1
                /\ output[w] = STR_Override
                /\ result_message[w] = LIT_FAIL_1
                /\ stop_event[w]
                /\ ~running[w])
    /\ [][\A w \in Workers :
            term_pc'[w] # term_pc[w] => TerminateFrame(w)' = TerminateFrame(w)]_vars

\* terminate() was called while the job body ran, and the run went on
C21_Witness ==
    /\ term_pc[1] = "done"
    /\ pc[1] = "base_job"
    /\ running[1]
    /\ ~stop_event[1]
    /\ result[1] = -1

\* ------------------------------------------------------------------ C22
\* The runner of test_that_callbacks_can_be_none: no gate, no callbacks
NoGateNoCallbacks(w) ==
    /\ start_gating_event[w] = NoEvent
    /\ start_callback[w] = "None"
    /\ stop_callback[w] = "None"

\* C22: with both callbacks None and no gate, a started run invokes no
\* callback and never waits at a gate, its thread does not die of a fault,
\* and it goes through running = True, the job body, running = False and
\* stop_event.set() in that order: the job body is entered once with running
\* True and stop_event unset, stop_event is set once, after the job body and
\* with running False, and the ended run has stop_event set.
C22_NoCallbacksNoGate ==
    \A w \in TestWorkers :
        (NoGateNoCallbacks(w) /\ runs[w] > 0) =>
            /\ start_cb_calls[w] = 0 /\ stop_cb_calls[w] = 0
            /\ ~start_callback_called /\ ~stop_callback_called
            /\ pc[w] # "gate_wait"
            /\ job_calls[w] <= 1 /\ set_calls[w] <= 1
            /\ pc[w] \in {"run", "set_running"} => (~running[w] /\ job_calls[w] = 0)
            /\ pc[w] = "start_callback" => (running[w] /\ job_calls[w] = 0)
            /\ pc[w] \in {"job_wait", "finally"} =>
                (running[w] /\ job_calls[w] = 1 /\ ~stop_event[w])
            /\ pc[w] \in {"stop_callback", "set_stop_event"} =>
                (~running[w] /\ job_calls[w] = 1 /\ set_calls[w] = 0 /\ ~stop_event[w])
            /\ stop_event[w] => RunEnded(w)
            /\ RunEnded(w) =>
                (~running[w] /\ stop_event[w] /\ job_calls[w] = 1 /\ set_calls[w] = 1)

\* such a run ended, its job having returned
C22_Witness ==
    /\ NoGateNoCallbacks(1)
    /\ RunEnded(1)
    /\ stop_event[1]
    /\ job_ret[1].kind = "return"
    /\ result_message[1] = LIT_Success

\* ------------------------------------------------------------------ C23
\* C23: the mapping handed to set_args() before start() is the one the job
\* body reads: neither start() nor any step of the run thread (every one of
\* which moves the thread's position) changes setup_kwargs, so the mapping
\* changes only in a set_args() call made while no run is live, and the
\* lookup setup_kwargs['job_mocking_event'] of the job body finds its key.
C23_ArgsReachJobUnmodified ==
    /\ [](\A w \in TestWorkers :
            pc[w] = "job_wait" => <<"job_mocking_event", "Event">> \in setup_kwargs[w])
    /\ [][\A w \in Workers :
            /\ pc'[w] # pc[w] => setup_kwargs'[w] = setup_kwargs[w]
            /\ setup_kwargs'[w] # setup_kwargs[w] => pc[w] = "idle"]_vars

\* test_that_args_are_passed while the job body waits: the mapping supplied
\* before start(), some_arg included, is the one in place
C23_Witness ==
    /\ pc[1] = "job_wait"
    /\ runs[1] = 1
    /\ <<"some_arg", "Bla Bla">> \in setup_kwargs[1]
    /\ setup_kwargs[1] # JobMockingArgs

\* ------------------------------------------------------------------ C24
\* The outcome text of the gated collection's runner w: Success, FAIL (1) or
\* FAIL (Exception) in turn
GatedOutcome(w) ==
    IF GatedJobConfig(w)[2] THEN LIT_FAIL_Exception
    ELSE IF GatedJobConfig(w)[1] = 0 THEN LIT_Success ELSE LIT_FAIL_1

\* C24: the gate opens on completion, not on success. With B's gate equal to
\* A's stop_event, B passes its gate only once A's run has set stop_event,
\* A's ended run shows Success, FAIL (1) or FAIL (Exception) as its job
\* decided, and in each of the three cases B passes its gate, runs its own job
\* body once and ends (under fair scheduling, jobs that end and acyclic gates).
C24_GateOpensOnAnyOutcome ==
    /\ [](\A ab \in GatedPairs(Workers) :
            /\ PassedGate(ab[2]) => (stop_event[ab[1]] /\ RunEnded(ab[1]))
            /\ RunEnded(ab[1]) => result_message[ab[1]] = GatedOutcome(ab[1]))
    /\ <>[](\A ab \in GatedPairs(Workers) :
            /\ RunEnded(ab[1])
            /\ RunEnded(ab[2])
            /\ job_calls[ab[2]] = 1
            /\ stop_event[ab[2]]
            /\ result_message[ab[2]] = GatedOutcome(ab[2]))

\* B gated on an A whose job raised, and B gated on an A whose job failed,
\* have both run their jobs to the end
C24_Witness ==
    /\ start_gating_event[1] = StopEventOf(3)
    /\ start_gating_event[3] = StopEventOf(2)
    /\ result_message[3] = LIT_FAIL_Exception
    /\ result_message[2] = LIT_FAIL_1
    /\ RunEnded(1) /\ job_calls[1] = 1 /\ result_message[1] = LIT_Success
    /\ RunEnded(3) /\ job_calls[3] = 1

\* ------------------------------------------------------------------ C25
\* C25: for every run launched through start(), whenever stop_event is set
\* result_message is "Success" exactly if result is 0, it is
\* "FAIL (Exception)" exactly if the job body raised (result then still -1),
\* and it is never the empty string.
C25_OutcomeTextWhenStopEventSet ==
    \A w \in Workers :
        (runs[w] > 0 /\ stop_event[w]) =>
            /\ result_message[w] = LIT_Success <=> result[w] = 0
            /\ result_message[w] = LIT_FAIL_Exception <=> job_ret[w].kind = "raise"
            /\ job_ret[w].kind = "raise" => result[w] = -1
            /\ result_message[w] # STR_Empty

\* ------------------------------------------------------------------ C26
\* C26: if start_callback or stop_callback itself raises, the run still ends
\* cleanly: once the run thread has ended, running is False and stop_event is
\* set (so nobody waiting on that stop_event is blocked forever).
C26_RaisingCallbackEndsCleanly ==
    \A w \in TestWorkers :
        RunEnded(w) => (~running[w] /\ stop_event[w])

\* ------------------------------------------------------------------ C27
\* C27: a DummyRunner.terminate() call made after start() and before the job
\* body has returned makes that run finish with result 255, outcome text
\* "FAIL (255)" and output "Job was terminated by user", whatever the
\* interleaving of the terminating thread and the run thread. (First run;
\* terminate() is only called while its job body has not returned.)
C27_TerminateGives255 ==
    \A w \in TestWorkers :
        (runs[w] = 1 /\ term_pc[w] # "idle" /\ RunEnded(w)) =>
            /\ result[w] = 255
            /\ result_message[w] = LIT_FAIL_255
            /\ output[w] = STR_terminated

\* ------------------------------------------------------------------ C28
\* The order of the widget states within one Go
WidgetRank(st) ==
    CASE st = "INIT" -> 0 [] st = "WAITING" -> 1 [] st = "RUNNING" -> 2 [] st = "DONE" -> 3

\* C28 (states move forward): between Go and the end of the polling loop a
\* widget's state only moves forward INIT -> WAITING -> RUNNING -> DONE, and
\* the loop ends only with every widget DONE.
C28_WidgetStatesMoveForward ==
    /\ [](gui_pc[1] = "reset_button" => \A w \in GuiWorkers : widget_state[w] = "DONE")
    /\ [][gui_pc[1] \in {"go", "poll"} =>
            \A w \in GuiWorkers :
                WidgetRank(widget_state'[w]) >= WidgetRank(widget_state[w])]_vars

\* C28: after go_action, for any selection of workers, with jobs that end and
\* acyclic gates, the polling loop eventually ends (Go turns into Reset) with
\* every selected worker's widget DONE.
C28_GoReachesDone ==
    (gui_pc[1] = "go") ~>
        (/\ gui_pc[1] = "reset_button"
         /\ \A w \in GuiWorkers : widget_state[w] = "DONE")

\* ------------------------------------------------------------------ C29
\* C29: across Go/Reset/Go cycles runner.start() is called on a worker only
\* when the thread of its previous run has already set stop_event, so no two
\* run threads of one worker are live together and no stop_event is set by a
\* late thread of the round before. (overlapped records a start() that met a
\* thread which had not executed line 111 yet, late_set counts such threads.)
C29_StartOnlyAfterStopEventSet ==
    /\ ~overlapped
    /\ \A w \in GuiWorkers : late_set[w] = 0

\* ------------------------------------------------------------------ C30
\* How often the steps of the current run were taken:
\* <<start_callback, job body, stop_callback, stop_event.set()>>
StepCounts(w) == <<start_cb_calls[w], job_calls[w], stop_cb_calls[w], set_calls[w]>>

\* How often a callback is due in one run: not at all when it is None
Due(cb) == IF cb = "None" THEN 0 ELSE 1

====
